---- MODULE Spec2Model ----
(***************************************************************************)
(* Model of the CloudInit status-report scripts.                           *)
(*                                                                         *)
(* Text is modelled as a sequence of one-character strings so that the     *)
(* string operations of the scripts (split, strip, lower, "in") are        *)
(* computed character by character.  Python's None is the one-element      *)
(* sequence None, whose element is no character.                           *)
(***************************************************************************)
EXTENDS Integers, Sequences, FiniteSets, TLC

VARIABLES
    raw,                \* argument of the last clean_assignee call
    cleaned,            \* its return value
    pc,                 \* position of the running script
    epic_batch_1,       \* EPIC_BATCH_1_DATA
    epic_batch_2,       \* EPIC_BATCH_2_DATA
    child_items_sample, \* SAMPLE_CHILD_ITEMS
    epics_data,         \* result of process_mcp_epic_data
    doc,                \* paragraphs and table rows of the Word document
    prev_doc,           \* document of the previous run on the same data
    data,               \* live_data of comprehensive_report_generator.py
    markdown_content,   \* lines of the Markdown report
    files,              \* names of the files in the working directory
    console,            \* kinds of message printed by the last script run
    script,             \* the script that runs
    now,                \* the clock: datetime.now()
    written,            \* names of the files saved by the running script, in order
    line_i              \* i, the index of the next line of the Markdown scanner

vars == <<raw, cleaned, pc, epic_batch_1, epic_batch_2, child_items_sample,
          epics_data, doc, prev_doc, data, markdown_content, files, console,
          script, now, written, line_i>>

-----------------------------------------------------------------------------
(* Bounds *)

\* longest assignee string tried
MaxLen == 4
\* most records in epic_batch_1 and epic_batch_2 together
MaxEpics == 2
\* random.randint(1, 30) is drawn from 1..MaxDaysAgo
MaxDaysAgo == 2
\* most runs of a script on the same data
MaxRuns == 2

-----------------------------------------------------------------------------
(* Text *)

None == <<"None">>

Alphabet == {"A", " ", "<", ">"}

RECURSIVE StringsUpTo(_)
StringsUpTo(n) ==
    IF n = 0 THEN {<<>>}
    ELSE LET S == StringsUpTo(n - 1)
         IN  S \cup {Append(s, c) : s \in {t \in S : Len(t) = n - 1}, c \in Alphabet}

\* c in s
Contains(s, c) == \E i \in 1..Len(s) : s[i] = c

\* s.split(c)[0]
RECURSIVE SplitFirst(_, _)
SplitFirst(s, c) ==
    IF s = <<>> THEN <<>>
    ELSE IF Head(s) = c THEN <<>>
    ELSE <<Head(s)>> \o SplitFirst(Tail(s), c)

RECURSIVE LStrip(_)
LStrip(s) ==
    IF s # <<>> /\ Head(s) = " " THEN LStrip(Tail(s)) ELSE s

RECURSIVE RStrip(_)
RStrip(s) ==
    IF s # <<>> /\ s[Len(s)] = " " THEN RStrip(SubSeq(s, 1, Len(s) - 1)) ELSE s

\* s.strip()
Strip(s) == RStrip(LStrip(s))

LowerChar(c) ==
    CASE c = "A" -> "a"
      [] c = "B" -> "b"
      [] c = "C" -> "c"
      [] c = "D" -> "d"
      [] c = "E" -> "e"
      [] c = "F" -> "f"
      [] c = "G" -> "g"
      [] c = "H" -> "h"
      [] c = "I" -> "i"
      [] c = "J" -> "j"
      [] c = "K" -> "k"
      [] c = "L" -> "l"
      [] c = "M" -> "m"
      [] c = "N" -> "n"
      [] c = "O" -> "o"
      [] c = "P" -> "p"
      [] c = "Q" -> "q"
      [] c = "R" -> "r"
      [] c = "S" -> "s"
      [] c = "T" -> "t"
      [] c = "U" -> "u"
      [] c = "V" -> "v"
      [] c = "W" -> "w"
      [] c = "X" -> "x"
      [] c = "Y" -> "y"
      [] c = "Z" -> "z"
      [] OTHER -> c

\* s.lower()
Lower(s) == [i \in 1..Len(s) |-> LowerChar(s[i])]

Unassigned == <<"U", "n", "a", "s", "s", "i", "g", "n", "e", "d">>

-----------------------------------------------------------------------------
(* clean_assignee *)

\* the name returned without strip()
clean_assignee_NoStrip(assignee_string) ==
    IF assignee_string = None \/ assignee_string = <<>>
    THEN Unassigned
    ELSE IF Contains(assignee_string, "<") /\ Contains(assignee_string, ">")
    THEN SplitFirst(assignee_string, "<")
    ELSE assignee_string

clean_assignee(assignee_string) ==
    IF assignee_string = None \/ assignee_string = <<>>
    THEN Unassigned
    ELSE IF Contains(assignee_string, "<") /\ Contains(assignee_string, ">")
    THEN Strip(SplitFirst(assignee_string, "<"))
    ELSE assignee_string

-----------------------------------------------------------------------------
(* Literal texts.  A fixed literal that the scripts only copy is written as *)
(* a one-element sequence holding the whole literal.                        *)

Active == <<"A", "c", "t", "i", "v", "e">>
CommittedUpper == <<"C", "O", "M", "M", "I", "T", "T", "E", "D">>
Committed == <<"C", "o", "m", "m", "i", "t", "t", "e", "d">>
New == <<"N", "e", "w">>
Removed == <<"R", "e", "m", "o", "v", "e", "d">>
RemovedMixed == <<"r", "E", "M", "O", "V", "E", "D">>
Done == <<"D", "o", "n", "e">>
Unknown == <<"U", "n", "k", "n", "o", "w", "n">>
UnknownEpic == <<"U", "n", "k", "n", "o", "w", "n", " ", "E", "p", "i", "c">>
lc_removed == <<"r", "e", "m", "o", "v", "e", "d">>
lc_active == <<"a", "c", "t", "i", "v", "e">>
lc_committed == <<"c", "o", "m", "m", "i", "t", "t", "e", "d">>
lc_new == <<"n", "e", "w">>
AnnMail == <<"A", "n", "n", " ", "<", "a", ">">>
Ann == <<"A", "n", "n">>
TitlePlan == <<"P", "l", "a", "n">>
TitleRisk == <<"R", "i", "s", "k">>
TitleLpa == <<"L", "P", "A">>
TagsX == <<"x">>

\* needle in s
IsSubstring(needle, s) ==
    \E i \in 0..(Len(s) - Len(needle)) :
        \A j \in 1..Len(needle) : s[i + j] = needle[j]

\* d.get(k, default)
Get(d, k, default) == IF k \in DOMAIN d THEN d[k] ELSE default

\* s[:n]
Take(s, n) == [i \in 1..(IF Len(s) < n THEN Len(s) ELSE n) |-> s[i]]

\* s[n:]
Drop(s, n) == [i \in 1..(Len(s) - n) |-> s[i + n]]

-----------------------------------------------------------------------------
(* CloudInit_MCP_Report.py: the record normalizer *)

\* fields.get('System.Id') of a record without that key
NoId == 0 - 1

blocker_keywords ==
    { <<"b", "l", "o", "c", "k", "e", "d">>,
      <<"b", "l", "o", "c", "k", "e", "r">>,
      <<"r", "i", "s", "k">>,
      <<"i", "s", "s", "u", "e">>,
      <<"p", "r", "o", "b", "l", "e", "m">>,
      <<"u", "r", "g", "e", "n", "t">>,
      <<"c", "r", "i", "t", "i", "c", "a", "l">>,
      <<"v", "u", "l", "n", "e", "r", "a", "b", "i", "l", "i", "t", "y">>,
      <<"s", "e", "c", "u", "r", "i", "t", "y">> }

kw_secrets == <<"s", "e", "c", "r", "e", "t", "s">>
kw_lpa == <<"l", "p", "a">>
kw_analyzer == <<"a", "n", "a", "l", "y", "z", "e", "r">>
kw_provisioning == <<"p", "r", "o", "v", "i", "s", "i", "o", "n", "i", "n", "g">>
kw_aurora == <<"a", "u", "r", "o", "r", "a">>
kw_migrate == <<"m", "i", "g", "r", "a", "t", "e">>
kw_security == <<"s", "e", "c", "u", "r", "i", "t", "y">>

has_blockers(epic) ==
    LET title_lower == Lower(epic["title"])
        tags_lower == Lower(Get(epic, "tags", <<>>))
    IN  \E keyword \in blocker_keywords :
            IsSubstring(keyword, title_lower) \/ IsSubstring(keyword, tags_lower)

\* the three literal points of each branch, named by branch and position
Points(branch) == << <<branch, "1">>, <<branch, "2">>, <<branch, "3">> >>

\* the first point of this branch starts with the warning icon
WarnBranch == "blocked"

\* points that warn whatever the epic is
generate_salient_points_AlwaysWarns(epic, child_items) == Take(Points(WarnBranch), 3)

generate_salient_points(epic, child_items) ==
    LET title_lower == Lower(epic["title"])
        points ==
            IF IsSubstring(kw_security, title_lower) \/ IsSubstring(kw_secrets, title_lower)
            THEN Points("security")
            ELSE IF IsSubstring(kw_lpa, title_lower) \/ IsSubstring(kw_analyzer, title_lower)
            THEN Points("lpa")
            ELSE IF IsSubstring(kw_provisioning, title_lower)
            THEN Points("provisioning")
            ELSE IF IsSubstring(kw_aurora, title_lower) \/ IsSubstring(kw_migrate, title_lower)
            THEN Points("aurora")
            ELSE IF has_blockers(epic)
            THEN Points(WarnBranch)
            ELSE Points("on_track")
    IN  Take(points, 3)

\* random.randint(1, 30) days before the day of the run
get_epic_last_updated(epic, child_items, days_ago) == days_ago

\* the result of a call: a value, or an exception raised
Ok(v) == [err |-> FALSE, val |-> v]
Raise == [err |-> TRUE, val |-> <<>>]

\* System.Tags read without its default
NewEpic_TagsNoDefault(fields) ==
    [ id |-> Get(fields, "System.Id", NoId),
      title |-> Get(fields, "System.Title", UnknownEpic),
      state |-> Get(fields, "System.State", Unknown),
      assigned_to |-> clean_assignee(Get(fields, "System.AssignedTo", Unassigned)),
      tags |-> Get(fields, "System.Tags", None),
      children |-> <<>> ]

\* the epic dictionary built from one raw record
NewEpic(fields) ==
    [ id |-> Get(fields, "System.Id", NoId),
      title |-> Get(fields, "System.Title", UnknownEpic),
      state |-> Get(fields, "System.State", Unknown),
      assigned_to |-> clean_assignee(Get(fields, "System.AssignedTo", Unassigned)),
      tags |-> Get(fields, "System.Tags", <<>>),
      children |-> <<>> ]

\* the condition of the "if" that adds the sample children
TakesChildren(epic, child_items_sample_) ==
    Lower(epic["state"]) \in {lc_active, lc_committed} /\ child_items_sample_ # <<>>

\* the state compared without lower()
IsRemoved_CaseSensitive(fields) == Get(fields, "System.State", <<>>) = Removed

\* fields.get('System.State', '').lower() == 'removed'
IsRemoved(fields) == Lower(Get(fields, "System.State", <<>>)) = lc_removed

\* the loop of process_mcp_epic_data; rnd holds the random draws still to come
RECURSIVE ProcessItems(_, _, _)
ProcessItems(items, sample, rnd) ==
    IF items = <<>> THEN Ok(<<>>)
    ELSE
      LET fields == Get(Head(items), "fields", <<>>)
      IN  IF Get(fields, "System.State", <<>>) = None
          THEN Raise      \* None has no lower()
          ELSE IF IsRemoved(fields)
          THEN ProcessItems(Tail(items), sample, rnd)
          ELSE
            LET epic == NewEpic(fields)
                takes == TakesChildren(epic, sample)
                children == Take(sample, 2)
                full == IF takes
                        THEN epic @@
                             ("last_updated" :>
                                 get_epic_last_updated(epic, children, Head(rnd))) @@
                             ("salient_points" :>
                                 generate_salient_points(epic, children))
                        ELSE epic
                final == [full EXCEPT !["children"] = IF takes THEN children ELSE @]
                rest == ProcessItems(Tail(items), sample, IF takes THEN Tail(rnd) ELSE rnd)
            IN  IF takes /\ epic["title"] = None
                THEN Raise      \* generate_salient_points: None has no lower()
                ELSE IF rest.err THEN Raise
                ELSE Ok(<<final>> \o rest.val)

process_mcp_epic_data(epic_batch_1_, epic_batch_2_, child_items_sample_, rnd) ==
    ProcessItems(epic_batch_1_ \o epic_batch_2_, child_items_sample_, rnd)

-----------------------------------------------------------------------------
(* CloudInit_MCP_Report.py: the report renderer                             *)
(*                                                                         *)
(* A paragraph, heading or table row is a record: kind names the fixed     *)
(* text or template, nums and texts hold the values formatted into it.     *)

El(kind, nums, texts) == [kind |-> kind, nums |-> nums, texts |-> texts]

\* [f(x) for x in seq if p(x)] is SelectSeq; sum of sequences of elements
RECURSIVE Flatten(_)
Flatten(seqs) == IF seqs = <<>> THEN <<>> ELSE Head(seqs) \o Flatten(Tail(seqs))

RECURSIVE SumSeq(_)
SumSeq(ns) == IF ns = <<>> THEN 0 ELSE Head(ns) + SumSeq(Tail(ns))

\* not x, for a list
Falsy(x) == x = <<>>

InActiveCommitted(e) == Lower(e["state"]) \in {lc_active, lc_committed}
InNew(e) == Lower(e["state"]) = lc_new
InOther_ForgetsNew(e) == Lower(e["state"]) \notin {lc_active, lc_committed}

InOther(e) == Lower(e["state"]) \notin {lc_active, lc_committed, lc_new}

active_committed_epics(epics_data_) == SelectSeq(epics_data_, InActiveCommitted)
new_epics(epics_data_) == SelectSeq(epics_data_, InNew)
other_epics(epics_data_) == SelectSeq(epics_data_, InOther)

\* the rows of the child table of one epic
ChildRows(children) ==
    [i \in 1..Len(children) |->
        El("child_row", <<children[i].id, (i - 1) % 2>>,
           <<children[i].title, children[i].type, children[i].state,
             children[i].assigned_to>>)]

\* the card of one active or committed epic, numbered idx
EpicCard(idx, epic) ==
    <<El("epic_header", <<idx, epic["id"], IF has_blockers(epic) THEN 1 ELSE 0>>,
         <<epic["title"]>>)>>
    \o <<El("details",
            IF "last_updated" \in DOMAIN epic   \* a date string, never empty
            THEN <<epic["last_updated"]>> ELSE <<>>,
            <<epic["state"], epic["assigned_to"]>>)>>
    \o (IF ~Falsy(Get(epic, "salient_points", <<>>))
        THEN <<El("key_updates", <<>>, <<>>)>>
             \o [i \in 1..Len(epic["salient_points"]) |->
                    El("point", <<>>, <<epic["salient_points"][i]>>)]
        ELSE <<>>)
    \o (IF ~Falsy(Get(epic, "children", <<>>))
        THEN <<El("child_heading", <<>>, <<>>), El("child_table_header", <<>>, <<>>)>>
             \o ChildRows(epic["children"])
             \o <<El("table_space", <<>>, <<>>)>>
        ELSE <<El("no_children", <<>>, <<>>)>>)

ActiveSection(ac) ==
    IF ac = <<>> THEN <<>>
    ELSE <<El("h1_active_committed", <<>>, <<>>)>>
         \o Flatten([idx \in 1..Len(ac) |-> EpicCard(idx, ac[idx])])

NewSection(ne) ==
    IF ne = <<>> THEN <<>>
    ELSE <<El("h1_new", <<>>, <<>>), El("new_table_header", <<>>, <<>>)>>
         \o [i \in 1..Len(ne) |->
                El("new_row", <<ne[i]["id"], (i - 1) % 2>>,
                   <<ne[i]["title"], ne[i]["assigned_to"]>>)]

\* a section whose heading is added without looking at the bucket
OtherSection_AlwaysHeading(ot) ==
    <<El("h1_other", <<>>, <<>>)>>
    \o [i \in 1..Len(ot) |->
           El("other_bullet", <<ot[i]["id"]>>,
              <<ot[i]["title"], ot[i]["state"], ot[i]["assigned_to"]>>)]

OtherSection(ot) ==
    IF ot = <<>> THEN <<>>
    ELSE <<El("h1_other", <<>>, <<>>)>>
         \o [i \in 1..Len(ot) |->
                El("other_bullet", <<ot[i]["id"]>>,
                   <<ot[i]["title"], ot[i]["state"], ot[i]["assigned_to"]>>)]

ReportFooter(epics_data_, now_) ==
    << El("page_break", <<>>, <<>>),
       El("h1_report_details", <<>>, <<>>),
       El("total_epics_analyzed", <<Len(epics_data_)>>, <<>>),
       El("active_committed_count", <<Len(active_committed_epics(epics_data_))>>, <<>>),
       El("new_count", <<Len(new_epics(epics_data_))>>, <<>>),
       El("other_states_count", <<Len(other_epics(epics_data_))>>, <<>>),
       El("total_child_items",
          <<SumSeq([i \in 1..Len(epics_data_) |->
                       Len(Get(epics_data_[i], "children", <<>>))])>>, <<>>),
       El("report_generation_time", <<now_>>, <<>>),
       El("data_source", <<>>, <<>>),
       El("filtering", <<>>, <<>>),
       El("enhanced_features", <<>>, <<>>),
       El("row_protection", <<>>, <<>>),
       El("font", <<>>, <<>>),
       El("icons", <<>>, <<>>) >>

\* an exception raised when the document holds the elements v
Fail(v) == [err |-> TRUE, val |-> v]

\* the card of this epic raises: a key read with [] is missing from the epic
\* or from one of its children, or has_blockers calls lower() on None
CardRaises(epic) ==
    \/ ~({"title", "id", "assigned_to"} \subseteq DOMAIN epic)
    \/ epic["title"] = None
    \/ Get(epic, "tags", <<>>) = None
    \/ \E i \in 1..Len(Get(epic, "children", <<>>)) :
            ~({"id", "title", "type", "state", "assigned_to"}
                \subseteq DOMAIN epic["children"][i])

\* the table row or the bullet of this epic raises
RowRaises(epic) == ~({"title", "id", "assigned_to"} \subseteq DOMAIN epic)

\* the index of the first TRUE of a list of flags, 0 when there is none
FirstTrue(flags) ==
    IF \E i \in 1..Len(flags) : flags[i]
    THEN CHOOSE i \in 1..Len(flags) : flags[i] /\ \A j \in 1..(i - 1) : ~flags[j]
    ELSE 0

\* the document built by generate_live_word_report, or the exception it
\* raises with the elements added until then; what the card or row of the
\* failing epic had added is left out
generate_live_word_report(epics_data_, now_) ==
    LET head == << El("title", <<>>, <<>>), El("generated", <<now_>>, <<>>) >>
    IN  IF \E i \in 1..Len(epics_data_) :
                "state" \notin DOMAIN epics_data_[i] \/ epics_data_[i]["state"] = None
        THEN Fail(head)      \* e['state'].lower()
        ELSE
          LET ac == active_committed_epics(epics_data_)
              ne == new_epics(epics_data_)
              ot == other_epics(epics_data_)
              bad_ac == FirstTrue([i \in 1..Len(ac) |-> CardRaises(ac[i])])
              bad_ne == FirstTrue([i \in 1..Len(ne) |-> RowRaises(ne[i])])
              bad_ot == FirstTrue([i \in 1..Len(ot) |-> RowRaises(ot[i])])
              summary == head \o
                  << El("h1_executive_summary", <<>>, <<>>),
                     El("summary", <<Len(epics_data_), Len(ac), Len(ne)>>, <<>>) >>
          IN  IF bad_ac > 0
              THEN Fail(summary \o
                        (IF bad_ac = 1 THEN <<El("h1_active_committed", <<>>, <<>>)>>
                         ELSE ActiveSection(Take(ac, bad_ac - 1))))
              ELSE IF bad_ne > 0
              THEN Fail(summary \o ActiveSection(ac) \o
                        (IF bad_ne = 1
                         THEN <<El("h1_new", <<>>, <<>>), El("new_table_header", <<>>, <<>>)>>
                         ELSE NewSection(Take(ne, bad_ne - 1))))
              ELSE IF bad_ot > 0
              THEN Fail(summary \o ActiveSection(ac) \o NewSection(ne) \o
                        (IF bad_ot = 1 THEN <<El("h1_other", <<>>, <<>>)>>
                         ELSE OtherSection(Take(ot, bad_ot - 1))))
              ELSE Ok(summary \o ActiveSection(ac) \o NewSection(ne) \o OtherSection(ot)
                      \o ReportFooter(epics_data_, now_))

-----------------------------------------------------------------------------
(* Input data of the MCP report scripts *)

Rec(id, st, ti, as, tg) ==
    [ id |-> id,
      fields |-> ("System.Id" :> id) @@ ("System.State" :> st) @@
                 ("System.Title" :> ti) @@ ("System.AssignedTo" :> as) @@
                 ("System.Tags" :> tg) ]

\* the record without some keys of its 'fields'
Without(item, keys) ==
    [ id |-> item.id,
      fields |-> [k \in (DOMAIN item.fields) \ keys |-> item.fields[k]] ]

RawItems ==
    { Rec(1, Active, TitleRisk, AnnMail, TagsX),
      Without(Rec(2, CommittedUpper, TitleLpa, Ann, TagsX),
              {"System.AssignedTo", "System.Tags"}),
      Rec(3, New, TitlePlan, <<>>, <<>>),
      Rec(4, Removed, TitlePlan, Ann, <<>>),
      Rec(5, RemovedMixed, TitleRisk, AnnMail, TagsX),
      Rec(6, Done, TitlePlan, Ann, TagsX),
      Without(Rec(7, Active, TitlePlan, Ann, TagsX), {"System.Title", "System.Id"}),
      Without(Rec(8, New, TitlePlan, Ann, TagsX), {"System.State"}),
      [id |-> 9, fields |-> <<>>],
      [id |-> 10],
      Rec(11, None, TitlePlan, Ann, <<>>),
      Rec(12, lc_active, None, Ann, <<>>),
      Rec(13, Active, TitlePlan, <<"<", "a", ">">>, <<>>) }

Child(id, ti, as) ==
    [id |-> id, title |-> ti, type |-> <<"Task">>, state |-> <<"To Do">>,
     assigned_to |-> as]

ChildSamples ==
    { <<>>,
      <<Child(101, TitlePlan, Ann)>>,
      <<Child(101, TitlePlan, Ann), Child(102, TitleRisk, Unassigned),
        Child(103, TitleLpa, Ann)>> }

RECURSIVE SeqsUpTo(_, _)
SeqsUpTo(S, n) ==
    IF n = 0 THEN {<<>>}
    ELSE LET T == SeqsUpTo(S, n - 1)
         IN  T \cup {Append(t, x) : t \in {u \in T : Len(u) = n - 1}, x \in S}

\* the two batches: every split of every list of at most MaxEpics records
BatchPairs ==
    UNION { { <<Take(all, k), Drop(all, k)>> : k \in 0..Len(all) } :
                all \in SeqsUpTo(RawItems, MaxEpics) }

\* one draw of random.randint for each call of get_epic_last_updated
NumDraws(items, sample) ==
    IF sample = <<>> THEN 0
    ELSE Cardinality({ i \in 1..Len(items) :
            LET st == Get(Get(items[i], "fields", <<>>), "System.State", Unknown)
            IN  st # None /\ Lower(st) \in {lc_active, lc_committed} })

RandomDraws(n) == [1..n -> 1..MaxDaysAgo]

ReportFile == "CloudInit_Live_MCP_Report_<timestamp>.docx"

-----------------------------------------------------------------------------
(* CloudInit_MCP_Report.py: the run of the script *)

IdleOthers == /\ raw = <<>> /\ cleaned = <<>>
              /\ data = <<>> /\ markdown_content = <<>> /\ console = <<>>

InitMcp ==
    /\ pc = "start"
    /\ script = "CloudInit_MCP_Report.py"
    /\ \E bp \in BatchPairs : epic_batch_1 = bp[1] /\ epic_batch_2 = bp[2]
    /\ child_items_sample \in ChildSamples
    /\ epics_data = <<>> /\ doc = <<>> /\ prev_doc = <<>>
    /\ files = {} /\ written = <<>> /\ line_i = 0 /\ now = 0
    /\ IdleOthers

\* epics_data = process_mcp_epic_data(EPIC_BATCH_1_DATA, EPIC_BATCH_2_DATA, SAMPLE_CHILD_ITEMS)
ProcessMcpEpicData ==
    /\ pc = "start"
    /\ \E rnd \in RandomDraws(NumDraws(epic_batch_1 \o epic_batch_2,
                                         child_items_sample)) :
        LET r == process_mcp_epic_data(epic_batch_1, epic_batch_2,
                                       child_items_sample, rnd)
        IN  IF r.err
            THEN pc' = "process_failed" /\ UNCHANGED epics_data
            ELSE pc' = "processed" /\ epics_data' = r.val
    /\ UNCHANGED <<line_i, raw, cleaned, epic_batch_1, epic_batch_2, child_items_sample,
                   doc, prev_doc, data, markdown_content, files, console, script, now,
                   written>>

\* the document saved before it is rendered
GenerateLiveWordReport_SavesFirst ==
    /\ pc = "processed"
    /\ LET r == generate_live_word_report(epics_data, now)
       IN  IF r.err
           THEN /\ pc' = "render_failed" /\ doc' = r.val
                /\ files' = files \cup {ReportFile}
                /\ written' = Append(written, ReportFile)
           ELSE /\ pc' = "saved" /\ doc' = r.val
                /\ files' = files \cup {ReportFile}
                /\ written' = Append(written, ReportFile)
    /\ UNCHANGED <<line_i, raw, cleaned, epic_batch_1, epic_batch_2, child_items_sample,
                   epics_data, prev_doc, data, markdown_content, console, script, now>>

\* output_file = generate_live_word_report(epics_data)
GenerateLiveWordReport ==
    /\ pc = "processed"
    /\ LET r == generate_live_word_report(epics_data, now)
       IN  IF r.err
           THEN pc' = "render_failed" /\ doc' = r.val /\ UNCHANGED <<files, written>>
           ELSE /\ pc' = "saved" /\ doc' = r.val
                /\ files' = files \cup {ReportFile}
                /\ written' = Append(written, ReportFile)
    /\ UNCHANGED <<line_i, raw, cleaned, epic_batch_1, epic_batch_2, child_items_sample,
                   epics_data, prev_doc, data, markdown_content, console, script, now>>

\* the script is started again on the same data, at a later time
RunAgain ==
    /\ pc = "saved"
    /\ now + 1 < MaxRuns
    /\ now' = now + 1
    /\ prev_doc' = doc
    /\ pc' = "start"
    /\ epics_data' = <<>>
    /\ doc' = <<>>
    /\ written' = <<>>
    /\ UNCHANGED <<line_i, raw, cleaned, epic_batch_1, epic_batch_2, child_items_sample,
                   data, markdown_content, files, console, script>>

NextMcp == ProcessMcpEpicData \/ GenerateLiveWordReport

SpecMcp == InitMcp /\ [][NextMcp]_vars

-----------------------------------------------------------------------------
(* Properties of the record normalizer and of the report renderer *)

all_epic_items == epic_batch_1 \o epic_batch_2

\* a and b are the same text when case is ignored
SameIgnoringCase(a, b) ==
    Len(a) = Len(b) /\ \A i \in 1..Len(a) : LowerChar(a[i]) = LowerChar(b[i])

HasField(item, k) == "fields" \in DOMAIN item /\ k \in DOMAIN item.fields

IsRemovedRecord(item) ==
    /\ HasField(item, "System.State")
    /\ SameIgnoringCase(item.fields["System.State"], Removed)

NotRemovedRecord(item) == ~IsRemovedRecord(item)

KeptRecords == SelectSeq(all_epic_items, NotRemovedRecord)

\* the epic was built from the record: the fields the record has are copied
BuiltFrom(epic, item) ==
    /\ HasField(item, "System.Id") => epic["id"] = item.fields["System.Id"]
    /\ HasField(item, "System.Title") => epic["title"] = item.fields["System.Title"]
    /\ HasField(item, "System.State") => epic["state"] = item.fields["System.State"]
    /\ HasField(item, "System.Tags") => epic["tags"] = item.fields["System.Tags"]

\* C2: the result of process_mcp_epic_data is batch 1 followed by batch 2
\* without the records whose state is "removed" whatever the case, one epic
\* for each record left, in the same order.
C2_DropsExactlyRemoved ==
    pc \in {"processed", "saved", "render_failed"} =>
        /\ Len(epics_data) = Len(KeptRecords)
        /\ \A i \in 1..Len(KeptRecords) : BuiltFrom(epics_data[i], KeptRecords[i])

\* a removed record of batch 1 was dropped and a record of batch 2 was kept
C2_Witness ==
    /\ pc = "processed"
    /\ Len(epic_batch_1) = 1 /\ Len(epic_batch_2) = 1
    /\ IsRemovedRecord(epic_batch_1[1])
    /\ epic_batch_1[1].fields["System.State"] # Removed
    /\ Len(epics_data) = 1
    /\ epics_data[1]["id"] = epic_batch_2[1].id

\* the number a footer line of the document shows
FooterCount(kind) ==
    LET i == CHOOSE j \in 1..Len(doc) : doc[j].kind = kind IN doc[i].nums[1]

BucketsOf(e) ==
    (IF InActiveCommitted(e) THEN {"active_committed"} ELSE {}) \cup
    (IF InNew(e) THEN {"new"} ELSE {}) \cup
    (IF InOther(e) THEN {"other"} ELSE {})

\* C7: the three buckets of generate_live_word_report are a partition of the
\* epics: each epic is in exactly one, and the footer counts add up to the total.
C7_BucketsPartition ==
    pc = "saved" =>
        /\ \A i \in 1..Len(epics_data) : Cardinality(BucketsOf(epics_data[i])) = 1
        /\ FooterCount("active_committed_count") + FooterCount("new_count")
             + FooterCount("other_states_count") = FooterCount("total_epics_analyzed")
        /\ FooterCount("total_epics_analyzed") = Len(epics_data)

\* a saved report with one new epic and one epic of another state
C7_Witness ==
    /\ pc = "saved"
    /\ FooterCount("total_epics_analyzed") = 2
    /\ FooterCount("new_count") = 1
    /\ FooterCount("other_states_count") = 1

\* no value of the record is None: fields are present with text, or absent
NoneFree(item) ==
    "fields" \in DOMAIN item =>
        \A k \in (DOMAIN item.fields) \ {"System.Id"} : item.fields[k] # None

\* C10: when fields of the records are absent (and none is None), the
\* normalization does not fail, and an absent title, state, assignee or tags
\* becomes "Unknown Epic", "Unknown", "Unassigned" or "".
C10_AbsentFieldsDefault ==
    (pc # "start" /\ \A i \in 1..Len(all_epic_items) : NoneFree(all_epic_items[i])) =>
        /\ pc # "process_failed"
        /\ Len(epics_data) = Len(KeptRecords)
        /\ \A i \in 1..Len(KeptRecords) :
            LET item == KeptRecords[i]
                epic == epics_data[i]
            IN  /\ ~HasField(item, "System.Title") => epic["title"] = UnknownEpic
                /\ ~HasField(item, "System.State") => epic["state"] = Unknown
                /\ ~HasField(item, "System.AssignedTo") => epic["assigned_to"] = Unassigned
                /\ ~HasField(item, "System.Tags") => epic["tags"] = <<>>

\* a record without 'fields' and an active record without title were normalized
C10_Witness ==
    /\ pc = "processed"
    /\ Len(epics_data) = 2
    /\ \E i \in 1..2 : "fields" \notin DOMAIN all_epic_items[i]
    /\ \E i \in 1..2 :
        /\ "fields" \in DOMAIN all_epic_items[i]
        /\ ~HasField(all_epic_items[i], "System.Title")
        /\ epics_data[i]["children"] # <<>>

-----------------------------------------------------------------------------
(* clean_assignee on every short assignee string *)

AssigneeInputs == StringsUpTo(MaxLen) \cup {None}

IdleMcp ==
    /\ epic_batch_1 = <<>> /\ epic_batch_2 = <<>> /\ child_items_sample = <<>>
    /\ epics_data = <<>> /\ doc = <<>> /\ prev_doc = <<>> /\ now = 0

InitAssignee ==
    /\ pc = "start"
    /\ script = "CloudInit_MCP_Report.py"
    /\ raw \in AssigneeInputs
    /\ cleaned = <<>>
    /\ IdleMcp
    /\ data = <<>> /\ markdown_content = <<>> /\ console = <<>> /\ files = {} /\ written = <<>> /\ line_i = 0

\* cleaned = clean_assignee(raw)
CleanAssignee ==
    /\ pc = "start"
    /\ cleaned' = clean_assignee(raw)
    /\ pc' = "returned"
    /\ UNCHANGED <<line_i, raw, epic_batch_1, epic_batch_2, child_items_sample, epics_data,
                   doc, prev_doc, data, markdown_content, files, console, script, now,
                   written>>

NextAssignee == CleanAssignee

SpecAssignee == InitAssignee /\ [][NextAssignee]_vars

\* the string holds a "<" with a ">" somewhere after it
HasAngleBrackets(s) ==
    \E i \in 1..Len(s) : \E j \in (i + 1)..Len(s) : s[i] = "<" /\ s[j] = ">"

\* the text before the first "<", without the blanks around it
BeforeFirstAngle(s) ==
    LET k == CHOOSE i \in 1..Len(s) :
                 s[i] = "<" /\ \A j \in 1..(i - 1) : s[j] # "<"
    IN  Strip(Take(s, k - 1))

\* C3: clean_assignee cuts a string that holds "<...>" at its first "<",
\* turns an empty or missing assignee into "Unassigned", and returns every
\* other string unchanged.
C3_CleanAssigneeAsClaimed ==
    pc = "returned" =>
        cleaned = IF raw = None \/ raw = <<>> THEN Unassigned
                  ELSE IF HasAngleBrackets(raw) THEN BeforeFirstAngle(raw)
                  ELSE raw

\* runs of the script repeated on the same data: all records in batch 1
InitRerun ==
    /\ pc = "start"
    /\ script = "CloudInit_MCP_Report.py"
    /\ epic_batch_1 \in SeqsUpTo(RawItems, MaxEpics)
    /\ epic_batch_2 = <<>>
    /\ child_items_sample \in ChildSamples
    /\ epics_data = <<>> /\ doc = <<>> /\ prev_doc = <<>>
    /\ files = {} /\ written = <<>> /\ line_i = 0 /\ now = 0
    /\ IdleOthers

NextRerun == ProcessMcpEpicData \/ GenerateLiveWordReport \/ RunAgain

SpecRerun == InitRerun /\ [][NextRerun]_vars

\* the document without the values of its time stamps
IgnoringStamps(d) ==
    [i \in 1..Len(d) |->
        IF d[i].kind \in {"generated", "report_generation_time"}
        THEN [d[i] EXCEPT !.nums = <<>>]
        ELSE d[i]]

\* C6: a second run on the same batches gives the same paragraph and cell
\* texts as the first, the time stamps left aside.
C6_RerunSameText ==
    (pc = "saved" /\ now > 0) => IgnoringStamps(doc) = IgnoringStamps(prev_doc)

\* C3 as amended: clean_assignee cuts a string that holds both "<" and ">",
\* in either order, at its first "<" and strips the blanks around the rest;
\* an empty or missing assignee becomes "Unassigned"; every other string is
\* returned unchanged.
C3_CleanAssigneeAmended ==
    pc = "returned" =>
        cleaned = IF raw = None \/ raw = <<>> THEN Unassigned
                  ELSE IF (\E i \in 1..Len(raw) : raw[i] = "<")
                          /\ (\E i \in 1..Len(raw) : raw[i] = ">")
                  THEN BeforeFirstAngle(raw)
                  ELSE raw

\* a name followed by a bracketed address was cut and stripped
C3_Witness ==
    /\ pc = "returned"
    /\ raw = <<"A", " ", "<", ">">>
    /\ cleaned = <<"A">>

-----------------------------------------------------------------------------
(* comprehensive_report_generator.py: the literal data and the child items *)

\* most epics in live_data["epics"]
MaxData == 2

TitleCvm == <<"C", "V", "M">>
TitleSecurityReview == <<"s", "e", "c", "u", "r", "i", "t", "y">>
TitleAurora == <<"A", "u", "r", "o", "r", "a">>
TitleQuality == <<"Q", "u", "a", "l", "i", "t", "y">>
BobMail == <<"B", "o", "b", " ", "<", "b", ">">>
Feature == <<"Feature">>
Task == <<"Task">>
ToDo == <<"To Do">>
Approved == <<"Approved">>
NA == <<"N/A">>

\* an ISO time stamp "YYYY-MM-DDThh:mm:ss.sssZ": its first ten characters are
\* the date, the rest is the time of day
Stamp(date, time) == [date |-> date, time |-> time]

\* one child work item as fetch_child_items_for_epic returns it
ChildItem(id, ti, ty, st, as) ==
    [id |-> id,
     fields |-> ("System.Id" :> id) @@ ("System.WorkItemType" :> ty) @@
                ("System.State" :> st) @@ ("System.AssignedTo" :> as) @@
                ("System.Title" :> ti)]

\* fetch_child_items_for_epic(epic_id): the child items depend on the id of
\* the epic alone
fetch_child_items_for_epic(epic_id) ==
    CASE epic_id = 28621005 ->
            << ChildItem(25391203, <<"Data Validation in Canary">>, Feature, Active, AnnMail),
               ChildItem(30248770, <<"RdAgent telemetry">>, Feature, Committed, BobMail),
               ChildItem(32885343, <<"NodeService rollout">>, Feature, New, AnnMail),
               ChildItem(30248773, <<"CloudInit integration">>, Task, Active, BobMail),
               ChildItem(34005323, <<"WinPA follow-up">>, Task, New, BobMail) >>
      [] epic_id = 24900549 ->
            << ChildItem(24900551, <<"Secret storage">>, Feature, Active, BobMail),
               ChildItem(24900552, <<"CloudInit CVM integration">>, Task, Active, AnnMail) >>
      [] epic_id = 25030289 ->
            << ChildItem(25030291, <<"Vulnerability assessment">>, Task, Active, AnnMail),
               ChildItem(25030292, <<"Mitigation">>, Feature, New, BobMail) >>
      [] epic_id = 33047787 ->
            << ChildItem(33047789, <<"Aurora test framework">>, Feature, Active, AnnMail),
               ChildItem(33047790, <<"Migration runbook">>, Task, ToDo, BobMail) >>
      [] OTHER -> <<>>

\* one entry of live_data["epics"]
LiveEpic(id, ti, st, as, lc) ==
    [id |-> id, title |-> ti, state |-> st, assignedTo |-> as,
     description |-> <<"description">>, url |-> <<"url">>, lastChanged |-> lc]

\* entries of live_data["epics"]: the literal ones, and the same epics in
\* other states
EpicSamples ==
    { LiveEpic(4976352, TitlePlan, Removed, <<>>, Stamp(3, 1)),
      LiveEpic(28621005, TitlePlan, Active, AnnMail, Stamp(4, 2)),
      LiveEpic(33047744, TitleQuality, New, BobMail, Stamp(1, 1)),
      LiveEpic(32020513, TitleSecurityReview, Done, AnnMail, Stamp(1, 2)),
      LiveEpic(24900549, TitleCvm, Active, BobMail, Stamp(2, 1)),
      LiveEpic(4780909, TitleQuality, Active, <<>>, Stamp(4, 1)),
      LiveEpic(24900549, TitleCvm, New, BobMail, Stamp(2, 1)),
      LiveEpic(33047787, TitleAurora, Committed, AnnMail, Stamp(4, 2)) }

\* one entry of live_data["high_priority_tasks"] or live_data["recent_bugs"]
WorkItem(id, ti, st, as, ty) ==
    [id |-> id, title |-> ti, state |-> st, assignedTo |-> as, type |-> ty]

TaskLists ==
    { <<>>,
      << WorkItem(33472219, <<"Cloud-Init Changes">>, ToDo, AnnMail, Task),
         WorkItem(29631548, <<"Save cloud-init log">>, Approved, <<>>, Feature) >> }

BugLists ==
    { <<>>,
      << WorkItem(34508823, <<"Az login throttling">>, Approved, <<>>, <<"Bug">>) >>,
      << WorkItem(32804907, <<"cloud-init timeout">>, Done, BobMail, <<"Bug">>) >> }

-----------------------------------------------------------------------------
(* comprehensive_report_generator.py: the Markdown report *)

\* for epic in live_data["epics"]: epic["children"] = fetch_child_items_for_epic(epic['id'])
fetch_live_cloudinit_data(live_data) ==
    [live_data EXCEPT !.epics =
        [i \in 1..Len(live_data.epics) |->
            [k \in DOMAIN live_data.epics[i] \cup {"children"} |->
                IF k = "children"
                THEN fetch_child_items_for_epic(live_data.epics[i].id)
                ELSE live_data.epics[i][k]]]]

ContainsAny(keywords, s) == \E kw \in keywords : IsSubstring(kw, s)

IsActive(e) == e.state = Active
IsDone(e) == e.state = Done
IsNew(e) == e.state = New
\* 'Secret' in e['title'] or 'CVM' in e['title'] or 'Security' in e['title']
IsSecurityEpic(e) ==
    ContainsAny({ <<"S", "e", "c", "r", "e", "t">>,
                  <<"C", "V", "M">>,
                  <<"S", "e", "c", "u", "r", "i", "t", "y">> }, e.title)
\* ['secret', 'security', 'cvm']
SecurityKeywords == {<<"s", "e", "c", "r", "e", "t">>, kw_security, <<"c", "v", "m">>}
\* ['aurora', 'migration', 'platform']
PlatformKeywords ==
    { kw_aurora, <<"m", "i", "g", "r", "a", "t", "i", "o", "n">>,
      <<"p", "l", "a", "t", "f", "o", "r", "m">> }
\* ['quality', 'support', 'improvement']
QualityKeywords ==
    { <<"q", "u", "a", "l", "i", "t", "y">>,
      <<"s", "u", "p", "p", "o", "r", "t">>,
      <<"i", "m", "p", "r", "o", "v", "e", "m", "e", "n", "t">> }

\* x.split('<')[0].strip() if x and '<' in x else x, then x or 'Unassigned'
ShortAssignee(assignedTo) ==
    LET assignee == IF assignedTo # None /\ assignedTo # <<>>
                       /\ Contains(assignedTo, "<")
                    THEN Strip(SplitFirst(assignedTo, "<"))
                    ELSE assignedTo
    IN  IF assignee = None \/ assignee = <<>> THEN Unassigned ELSE assignee

\* epic['assignedTo'] if epic['assignedTo'] else 'Unassigned'
CardAssignee(assignedTo) ==
    IF assignedTo = None \/ assignedTo = <<>> THEN Unassigned ELSE assignedTo

\* the display of a child's assignee
ChildAssignee(child_assignee) ==
    IF child_assignee = None THEN Unassigned
    ELSE IF Contains(child_assignee, "<")
    THEN Strip(SplitFirst(child_assignee, "<"))
    ELSE child_assignee

\* the rows of the child table of one active epic
CompChildRows(children) ==
    [i \in 1..Len(children) |->
        LET child_fields == Get(children[i], "fields", <<>>)
        IN  El("child_row",
               <<Get(child_fields, "System.Id", Get(children[i], "id", NoId))>>,
               << Get(child_fields, "System.Title", NA),
                  Get(child_fields, "System.State", NA),
                  ChildAssignee(Get(child_fields, "System.AssignedTo", Unassigned)),
                  Get(child_fields, "System.WorkItemType", NA) >>)]

\* the card of one active epic; texts are title, status, assignee, priority
\* indicator and description
CompEpicCard(epic) ==
    << El("epic_card", <<epic.id, epic.lastChanged.date>>,
          << epic.title, epic.state, CardAssignee(epic.assignedTo),
             IF ContainsAny(SecurityKeywords, Lower(epic.title))
             THEN <<"alarm">> ELSE <<"bolt">>,
             epic.description, epic.url >>) >>
    \o (IF Get(epic, "children", <<>>) # <<>>
        THEN << El("child_items", <<Len(epic.children)>>, <<>>) >>
             \o CompChildRows(epic.children)
        ELSE << El("no_child_items", <<>>, <<>>) >>)
    \o << El("rule", <<>>, <<>>) >>

\* a row of the task table or of the bug table
WorkItemRow(kind, item) ==
    El(kind, <<item.id>>,
       << item.title, item.state, ShortAssignee(item.assignedTo),
          Get(item, "type", <<>>) >>)

NoneText == <<"N", "o", "n", "e">>
ItemsText == <<" ", "i", "t", "e", "m", "s">>

\* a row of the overview table, one for every epic; nums are the id, the
\* number of children and the date of the last change
OverviewRow(epic) ==
    LET child_count == Len(Get(epic, "children", <<>>))
    IN  El("overview_row", <<epic.id, child_count, epic.lastChanged.date>>,
           << epic.title, epic.state, ShortAssignee(epic.assignedTo),
              IF child_count > 0 THEN ItemsText ELSE NoneText, epic.url >>)

\* round(k / n * 100): to the nearest integer, a tie to the even one
RoundPercent(k, n) ==
    LET q == (100 * k) \div n
        r == (100 * k) % n
    IN  IF 2 * r < n THEN q
        ELSE IF 2 * r > n THEN q + 1
        ELSE IF q % 2 = 0 THEN q ELSE q + 1

\* one line of the trend analysis: the active epics with one of the keywords
TrendLine(label, keywords, active_epic_list) ==
    LET HasKeyword(e) == ContainsAny(keywords, Lower(e.title))
        k == Len(SelectSeq(active_epic_list, HasKeyword))
    IN  El("trend", <<k, RoundPercent(k, Len(active_epic_list))>>, <<label>>)

\* the order of the time stamps as strings
StampLeq(a, b) == a.date < b.date \/ (a.date = b.date /\ a.time <= b.time)

\* max(epic['lastChanged'] for epic in epics)
MaxLastChanged(epics) ==
    LET i == CHOOSE i \in 1..Len(epics) :
                \A j \in 1..Len(epics) : StampLeq(epics[j].lastChanged, epics[i].lastChanged)
    IN  epics[i].lastChanged

\* the Markdown report as the list of its parts, or the exception raised
generate_comprehensive_report(data_, now_) ==
    LET epics == data_.epics
        tasks == data_.high_priority_tasks
        bugs == data_.recent_bugs
        active_epic_list == SelectSeq(epics, IsActive)
    IN  IF active_epic_list = <<>>
        THEN Raise      \* division by len(active_epic_list)
        ELSE Ok(
            << El("title", <<>>, <<>>),
               El("generated", <<now_>>, <<>>),
               El("key_metrics",
                  << Len(epics), Len(SelectSeq(epics, IsActive)), Len(SelectSeq(epics, IsDone)),
                     Len(SelectSeq(epics, IsNew)), Len(SelectSeq(epics, IsSecurityEpic)),
                     Len(tasks), Len(bugs) >>, <<>>),
               El("h2_critical_active_epics", <<>>, <<>>) >>
            \o Flatten([i \in 1..Len(active_epic_list) |->
                            CompEpicCard(active_epic_list[i])])
            \o << El("tasks_header", <<>>, <<>>) >>
            \o [i \in 1..Len(tasks) |-> WorkItemRow("task_row", tasks[i])]
            \o << El("bugs_header", <<>>, <<>>) >>
            \o [i \in 1..Len(bugs) |-> WorkItemRow("bug_row", bugs[i])]
            \o << El("overview_header", <<>>, <<>>) >>
            \o [i \in 1..Len(epics) |-> OverviewRow(epics[i])]
            \o << El("strategic_analysis", <<Len(SelectSeq(epics, IsSecurityEpic))>>, <<>>),
                  TrendLine(<<"Security & CVM">>, SecurityKeywords, active_epic_list),
                  TrendLine(<<"Platform & Migration">>, PlatformKeywords, active_epic_list),
                  TrendLine(<<"Quality & Support">>, QualityKeywords, active_epic_list),
                  El("data_freshness",
                     << now_, MaxLastChanged(epics).date,
                        Len(epics) + Len(tasks) + Len(bugs) >>, <<>>) >> )

MarkdownFile == "cloudinit_status_report.md"

\* every list of at most MaxData epics, with some tasks and some bugs
LiveData ==
    { [epics |-> es, high_priority_tasks |-> ts, recent_bugs |-> bs] :
        es \in SeqsUpTo(EpicSamples, MaxData), ts \in TaskLists, bs \in BugLists }

InitComp ==
    /\ pc = "start"
    /\ script = "comprehensive_report_generator.py"
    /\ data \in LiveData
    /\ markdown_content = <<>>
    /\ files = {} /\ written = <<>> /\ line_i = 0 /\ console = <<>>
    /\ raw = <<>> /\ cleaned = <<>>
    /\ IdleMcp

\* data = fetch_live_cloudinit_data()
FetchLiveCloudinitData ==
    /\ pc = "start"
    /\ script = "comprehensive_report_generator.py"
    /\ data' = fetch_live_cloudinit_data(data)
    /\ pc' = "fetched"
    /\ UNCHANGED <<line_i, raw, cleaned, epic_batch_1, epic_batch_2, child_items_sample,
                   epics_data, doc, prev_doc, markdown_content, files, console,
                   script, now, written>>

\* report = generate_comprehensive_report(data), written to the Markdown file
GenerateComprehensiveReport ==
    /\ pc = "fetched"
    /\ LET r == generate_comprehensive_report(data, now)
       IN  IF r.err
           THEN /\ pc' = "generate_failed"
                /\ UNCHANGED <<markdown_content, files, console, written>>
           ELSE /\ pc' = "saved"
                /\ markdown_content' = r.val
                /\ files' = files \cup {MarkdownFile}
                /\ written' = Append(written, MarkdownFile)
                /\ console' = <<"saved">>
    /\ UNCHANGED <<line_i, raw, cleaned, epic_batch_1, epic_batch_2, child_items_sample,
                   epics_data, doc, prev_doc, data, script, now>>

NextComp == FetchLiveCloudinitData \/ GenerateComprehensiveReport

SpecComp == InitComp /\ [][NextComp]_vars

-----------------------------------------------------------------------------
(* Properties of the Markdown report *)

\* the parts of the Markdown report that show one work item: texts[1] is its
\* title, texts[2] its state and texts[3] its assignee
ItemKinds == {"epic_card", "child_row", "task_row", "bug_row", "overview_row"}

ReportSaved == script = "comprehensive_report_generator.py" /\ pc = "saved"

\* C1: no epic whose state is "Removed" contributes a card or a row to the
\* report written by generate_comprehensive_report.
C1_RemovedNeverRendered ==
    ReportSaved =>
        \A i \in 1..Len(markdown_content) :
            markdown_content[i].kind \in {"epic_card", "overview_row"}
                => markdown_content[i].texts[2] # Removed

\* C4: every assignee shown by the Markdown report (epic cards, child rows,
\* task rows, bug rows, overview rows) is shown without "<": a "Name <email>"
\* is shown as "Name".
C4_NoEmailRendered ==
    ReportSaved =>
        \A i \in 1..Len(markdown_content) :
            markdown_content[i].kind \in ItemKinds
                => ~Contains(markdown_content[i].texts[3], "<")

C8_ActiveCommittedGetCard ==
    ReportSaved =>
        \A i \in 1..Len(data.epics) :
            data.epics[i].state \in {Active, Committed}
                => \E j \in 1..Len(markdown_content) :
                        /\ markdown_content[j].kind = "epic_card"
                        /\ markdown_content[j].nums[1] = data.epics[i].id
                        /\ markdown_content[j].texts[1] = data.epics[i].title

-----------------------------------------------------------------------------
(* The scripts and the files of the working directory *)
(*                                                                         *)
(* A run of a script is one step.  files holds the names of the files in   *)
(* the directory; a time stamp in a name is written <timestamp>.  console  *)
(* holds the kinds of message the run printed and written the files it     *)
(* saved.                                                                  *)

\* most script runs in a row
MaxScriptRuns == 4

EpicDataFile == "epic_data.json"
ValidatedFile == "epic_data_validated.json"
ConvertedFile == "CloudInit_Status_Report_<timestamp>.docx"
EnhancedFile == "CloudInit_Epic_Status_Report_Enhanced_<timestamp>.docx"
LatestFile == "CloudInit_Status_Report_Latest.docx"
FocusedStampFile == "CloudInit_Focused_Report_<timestamp>.docx"
FocusedFile == "CloudInit_Status_Report_Focused.docx"

\* what a run leaves: the messages printed and the files saved, in order
Outcome(printed, saved) == [console |-> printed, written |-> saved]

\* convert_to_word.py: open() raises FileNotFoundError, which __main__ reports
parse_markdown_to_word(files_) ==
    IF MarkdownFile \notin files_
    THEN Outcome(<<"error_not_found", "please_ensure">>, <<>>)
    ELSE Outcome(<<"created", "report_generated">>, <<ConvertedFile>>)

\* a professional report that does not read its input file
create_professional_word_report_NoInput(files_) ==
    Outcome(<<"created", "features">>, <<EnhancedFile, LatestFile>>)

\* create_professional_report.py
create_professional_word_report(files_) ==
    IF MarkdownFile \notin files_
    THEN Outcome(<<"error_not_found">>, <<>>)
    ELSE Outcome(<<"created", "features">>, <<EnhancedFile, LatestFile>>)

create_focused_word_report_NoCheck(files_) ==
    Outcome(<<"created", "features">>, <<FocusedStampFile, FocusedFile>>)

\* create_focused_report.py
create_focused_word_report(files_) ==
    IF ValidatedFile \notin files_
    THEN Outcome(<<"error_not_found">>, <<>>)
    ELSE Outcome(<<"created", "features">>, <<FocusedStampFile, FocusedFile>>)

\* validate_epics.py: a missing epic_data.json is read as {} and the run
\* goes on as it does when the file is there
validate_and_update_epic_data(files_) ==
    LET current_data == IF EpicDataFile \in files_ THEN <<"loaded">> ELSE <<>>
    IN  Outcome(<<"validation_report", "saved_to">>, <<ValidatedFile>>)

\* fetch_cloudinit_epics.py: fetch_cloudinit_epics() returns [], so nothing
\* is saved
fetch_cloudinit_epics_main(files_) ==
    LET epics == <<>>
    IN  IF epics # <<>>
        THEN Outcome(<<"found", "saved_to">>, <<EpicDataFile>>)
        ELSE Outcome(<<"found", "no_epics_found">>, <<>>)

\* comprehensive_report_generator.py on the data d
comprehensive_main(d, now_) ==
    IF generate_comprehensive_report(fetch_live_cloudinit_data(d), now_).err
    THEN Outcome(<<"fetching", "generating", "traceback">>, <<>>)
    ELSE Outcome(<<"fetching", "generating", "saved">>, <<MarkdownFile>>)

RECURSIVE Range(_)
Range(seq) == IF seq = <<>> THEN {} ELSE {Head(seq)} \cup Range(Tail(seq))

\* the data of one run of comprehensive_report_generator.py
RunData ==
    { [epics |-> es, high_priority_tasks |-> <<>>, recent_bugs |-> <<>>] :
        es \in SeqsUpTo(EpicSamples, 1) }

\* a directory that is empty or holds a hand-made epic_data.json
InitFiles ==
    /\ pc = "idle"
    /\ script = ""
    /\ files \in {{}, {EpicDataFile}}
    /\ console = <<>> /\ written = <<>> /\ line_i = 0
    /\ raw = <<>> /\ cleaned = <<>>
    /\ data = <<>> /\ markdown_content = <<>>
    /\ IdleMcp

\* the run of one script: it prints, saves its files and ends
Run(name, outcome) ==
    /\ now < MaxScriptRuns
    /\ now' = now + 1
    /\ script' = name
    /\ console' = outcome.console
    /\ written' = outcome.written
    /\ files' = files \cup Range(outcome.written)
    /\ UNCHANGED <<line_i, raw, cleaned, pc, epic_batch_1, epic_batch_2, child_items_sample,
                   epics_data, doc, prev_doc, data, markdown_content>>

RunConvertToWord == Run("convert_to_word.py", parse_markdown_to_word(files))

RunCreateProfessionalReport ==
    Run("create_professional_report.py", create_professional_word_report(files))

RunCreateFocusedReport ==
    Run("create_focused_report.py", create_focused_word_report(files))

RunValidateEpics == Run("validate_epics.py", validate_and_update_epic_data(files))

RunFetchCloudinitEpics ==
    Run("fetch_cloudinit_epics.py", fetch_cloudinit_epics_main(files))

RunComprehensiveReportGenerator ==
    \E d \in RunData :
        Run("comprehensive_report_generator.py", comprehensive_main(d, now))

NextFiles ==
    \/ RunConvertToWord
    \/ RunCreateProfessionalReport
    \/ RunCreateFocusedReport
    \/ RunValidateEpics
    \/ RunFetchCloudinitEpics
    \/ RunComprehensiveReportGenerator

SpecFiles == InitFiles /\ [][NextFiles]_vars

-----------------------------------------------------------------------------
(* Properties of the script runs *)

\* the last run was of the script name and its input file was not there
RanWithout(name, input) == script = name /\ input \notin files

Aborted == "error_not_found" \in Range(console) /\ written = <<>>

\* C9 as stated: each of the four scripts that read an input file prints an
\* error and saves no file when its input file does not exist.
C9_MissingInputAborts ==
    /\ RanWithout("convert_to_word.py", MarkdownFile) => Aborted
    /\ RanWithout("create_professional_report.py", MarkdownFile) => Aborted
    /\ RanWithout("create_focused_report.py", ValidatedFile) => Aborted
    /\ RanWithout("validate_epics.py", EpicDataFile) => Aborted

\* C9 amended: convert_to_word.py, create_professional_report.py and
\* create_focused_report.py print an error and save no file when their input
\* file does not exist; validate_epics.py goes on without epic_data.json,
\* prints no error and saves epic_data_validated.json.
C9_MissingInputAbortsExceptValidate ==
    /\ RanWithout("convert_to_word.py", MarkdownFile) => Aborted
    /\ RanWithout("create_professional_report.py", MarkdownFile) => Aborted
    /\ RanWithout("create_focused_report.py", ValidatedFile) => Aborted
    /\ RanWithout("validate_epics.py", EpicDataFile) =>
            /\ "error_not_found" \notin Range(console)
            /\ written = <<ValidatedFile>>
            /\ ValidatedFile \in files

\* a script has run without its input file, after other scripts had run
C9_Witness ==
    /\ RanWithout("create_focused_report.py", ValidatedFile)
    /\ Aborted
    /\ files # {}
    /\ now > 1

-----------------------------------------------------------------------------
(* generate_live_word_report called on epics that lack keys *)

\* the dictionary d without some of its keys
Lacking(d, keys) == [k \in (DOMAIN d) \ keys |-> d[k]]

\* epics handed to generate_live_word_report: whole ones, and ones that
\* lack a key the renderer reads
RenderEpics ==
    LET child == Child(101, TitlePlan, Ann)
        active == NewEpic(Rec(1, Active, TitleRisk, AnnMail, TagsX).fields) @@
                  ("last_updated" :> 1) @@ ("salient_points" :> Points("on_track"))
        new == NewEpic(Rec(3, New, TitlePlan, <<>>, <<>>).fields)
        done == NewEpic(Rec(6, Done, TitlePlan, Ann, TagsX).fields)
    IN  { [active EXCEPT !["children"] = <<child, child>>],
          new,
          done,
          Lacking(active, {"title"}),
          Lacking(active, {"assigned_to", "tags"}),
          [active EXCEPT !["children"] = <<child, Lacking(child, {"type"})>>],
          [new EXCEPT !["children"] = <<Lacking(child, {"type"})>>],
          Lacking(new, {"id"}),
          Lacking(done, {"assigned_to"}),
          Lacking(done, {"state"}) }

InitRender ==
    /\ pc = "processed"
    /\ script = "CloudInit_MCP_Report.py"
    /\ epics_data \in SeqsUpTo(RenderEpics, MaxEpics)
    /\ epic_batch_1 = <<>> /\ epic_batch_2 = <<>> /\ child_items_sample = <<>>
    /\ doc = <<>> /\ prev_doc = <<>>
    /\ files = {} /\ written = <<>> /\ line_i = 0 /\ now = 0
    /\ IdleOthers

NextRender == GenerateLiveWordReport

SpecRender == InitRender /\ [][NextRender]_vars

\* the kinds of the elements of a section and of all the sections after it
FromNewSection ==
    {"h1_new", "new_table_header", "new_row", "h1_other", "other_bullet",
     "page_break", "h1_report_details"}
FromOtherSection == {"h1_other", "other_bullet", "page_break", "h1_report_details"}

KindsOf(d) == {d[i].kind : i \in 1..Len(d)}

\* the epic lacks a key that the renderer reads with []
LacksReadKey(e) ==
    \/ \E k \in {"title", "id", "state", "assigned_to"} : k \notin DOMAIN e
    \/ /\ e["state"] \in {Active, Committed}
       /\ \E i \in 1..Len(e["children"]) : "type" \notin DOMAIN e["children"][i]

\* C11: when an epic, or a child of an active epic, lacks a key the renderer
\* reads, the call fails and no document is saved; the sections after the
\* one of the failing epic and the footer are not rendered.
C11_FailureLeavesNoOutput ==
    /\ pc = "saved" => \A i \in 1..Len(epics_data) : ~LacksReadKey(epics_data[i])
    /\ pc = "render_failed" =>
        /\ \E i \in 1..Len(epics_data) : LacksReadKey(epics_data[i])
        /\ ReportFile \notin files /\ written = <<>>
        /\ "h1_report_details" \notin KindsOf(doc)
        /\ \A i \in 1..Len(epics_data) :
            LET e == epics_data[i]
            IN  /\ "state" \notin DOMAIN e => KindsOf(doc) = {"title", "generated"}
                /\ (LacksReadKey(e) /\ "state" \in DOMAIN e /\ e["state"] = Active)
                        => KindsOf(doc) \cap FromNewSection = {}
                /\ (LacksReadKey(e) /\ "state" \in DOMAIN e /\ e["state"] = New)
                        => KindsOf(doc) \cap FromOtherSection = {}

\* a failure after the card of an earlier epic was rendered
C11_Witness ==
    /\ pc = "render_failed"
    /\ Len(epics_data) = 2
    /\ "id" \notin DOMAIN epics_data[2]
    /\ "epic_header" \in KindsOf(doc)
    /\ "h1_new" \in KindsOf(doc)
    /\ files = {}

-----------------------------------------------------------------------------
(* More properties of the script runs *)

\* C12: no run of a script saves more than one file, and a run that reports
\* a document as created has saved exactly one.
C12_OneFilePerRun ==
    /\ Len(written) <= 1
    /\ "created" \in Range(console) => Len(written) = 1

-----------------------------------------------------------------------------
(* convert_to_word.py: the line scanner of parse_markdown_to_word *)

\* longest line of a one-line Markdown file
MaxLineLen == 4
\* most lines of a Markdown file made of the sample lines
MaxLines == 2

\* a startswith that looks at the first character of the prefix only
StartsWith_FirstCharOnly(s, prefix) == Len(s) >= Len(prefix) /\ s[1] = prefix[1]

\* s.startswith(prefix)
StartsWith(s, prefix) == Len(s) >= Len(prefix) /\ Take(s, Len(prefix)) = prefix

\* s.split('**'): the delimiters are found from the left and do not overlap
RECURSIVE SplitBold(_)
SplitBold(s) ==
    IF \E k \in 1..(Len(s) - 1) : s[k] = "*" /\ s[k + 1] = "*"
    THEN LET k == CHOOSE k \in 1..(Len(s) - 1) :
                    /\ s[k] = "*" /\ s[k + 1] = "*"
                    /\ \A j \in 1..(k - 1) : ~(s[j] = "*" /\ s[j + 1] = "*")
         IN  <<Take(s, k - 1)>> \o SplitBold(Drop(s, k + 1))
    ELSE <<s>>

\* the element that one line adds to the document, if any.  nums holds the
\* index of the line, and the level for a heading; texts holds the text, or
\* the runs of a paragraph split at '**': the runs at the even places (the
\* parts of odd index j) are bold
ScanLine(i, raw_line) ==
    LET line == Strip(raw_line)
    IN  IF line = <<>> THEN <<>>
        ELSE IF StartsWith(line, <<"#", " ">>)
        THEN <<El("heading", <<i, 1>>, <<Strip(Drop(line, 2))>>)>>
        ELSE IF StartsWith(line, <<"#", "#", " ">>)
        THEN <<El("heading", <<i, 2>>, <<Strip(Drop(line, 3))>>)>>
        ELSE IF StartsWith(line, <<"#", "#", "#", " ">>)
        THEN <<El("heading", <<i, 3>>, <<Strip(Drop(line, 4))>>)>>
        ELSE IF Head(line) = "*" /\ line[Len(line)] = "*" /\ Len(line) > 2
        THEN <<El("italic", <<i>>, <<Take(Drop(line, 1), Len(line) - 2)>>)>>
        ELSE IF IsSubstring(<<"*", "*">>, line)
        THEN <<El("runs", <<i>>, SplitBold(line))>>
        ELSE IF StartsWith(line, <<"-", " ">>)
        THEN LET bullet_text == Strip(Drop(line, 2))
             IN  IF IsSubstring(<<"*", "*">>, bullet_text)
                 THEN <<El("bullet_runs", <<i>>, SplitBold(bullet_text))>>
                 ELSE <<El("bullet", <<i>>, <<bullet_text>>)>>
        ELSE IF StartsWith(line, <<"-", "-", "-">>)
        THEN <<El("rule", <<i>>, <<>>)>>
        ELSE IF Head(line) # "#"
        THEN IF IsSubstring(<<"*", "*">>, line)
             THEN <<El("runs", <<i>>, SplitBold(line))>>
             ELSE <<El("paragraph", <<i>>, <<line>>)>>
        ELSE <<>>

\* the characters of the one-line files
MdAlphabet == {"#", " ", "*", "-", "a"}

RECURSIVE LinesUpTo(_)
LinesUpTo(n) ==
    IF n = 0 THEN {<<>>}
    ELSE LET S == LinesUpTo(n - 1)
         IN  S \cup {Append(s, c) : s \in {t \in S : Len(t) = n - 1}, c \in MdAlphabet}

\* lines of the kinds that the generated Markdown report holds
SampleLines ==
    { <<>>,
      <<" ", " ">>,
      <<"#", " ", "a", " ", "b">>,
      <<"#", "#", " ", "a", "*", "*">>,
      <<"#", "#", "#", " ", "a">>,
      <<"#", "#", "#", "#", " ", "a">>,
      <<"*", "a", " ", "b", "*">>,
      <<"*", "*", "a", " ", "b", "*", "*">>,
      <<"*", "*", "a", ":", "*", "*", " ", "b">>,
      <<"a", " ", "*", "*", "b", "*", "*", " ", "c">>,
      <<"-", " ", "a", " ", "b">>,
      <<"-", " ", "*", "*", "a", ":", "*", "*", " ", "b">>,
      <<"-", "-", "-">>,
      <<" ", "a", " ", "b", " ">> }

\* content.split('\n') of every file: it has at least one line
MarkdownFiles ==
    {<<l>> : l \in LinesUpTo(MaxLineLen)}
        \cup (SeqsUpTo(SampleLines, MaxLines) \ {<<>>})

\* the script has opened cloudinit_status_report.md and split it into lines
InitConvert ==
    /\ pc = "scanning"
    /\ script = "convert_to_word.py"
    /\ markdown_content \in MarkdownFiles
    /\ line_i = 0
    /\ doc = <<>> /\ prev_doc = <<>>
    /\ files = {MarkdownFile} /\ written = <<>> /\ console = <<>>
    /\ epic_batch_1 = <<>> /\ epic_batch_2 = <<>> /\ child_items_sample = <<>>
    /\ epics_data = <<>> /\ now = 0
    /\ raw = <<>> /\ cleaned = <<>> /\ data = <<>>

\* a loop whose blank-line branch does continue without i += 1
ScanNextLine_BlankStalls ==
    /\ pc = "scanning"
    /\ line_i < Len(markdown_content)
    /\ IF Strip(markdown_content[line_i + 1]) = <<>>
       THEN UNCHANGED <<doc, line_i>>
       ELSE /\ doc' = doc \o ScanLine(line_i, markdown_content[line_i + 1])
            /\ line_i' = line_i + 1
    /\ UNCHANGED <<raw, cleaned, pc, epic_batch_1, epic_batch_2, child_items_sample,
                   epics_data, prev_doc, data, markdown_content, files, console,
                   script, now, written>>

\* one turn of the while loop: lines[i] is rendered, or skipped, and i += 1
ScanNextLine ==
    /\ pc = "scanning"
    /\ line_i < Len(markdown_content)
    /\ doc' = doc \o ScanLine(line_i, markdown_content[line_i + 1])
    /\ line_i' = line_i + 1
    /\ UNCHANGED <<raw, cleaned, pc, epic_batch_1, epic_batch_2, child_items_sample,
                   epics_data, prev_doc, data, markdown_content, files, console,
                   script, now, written>>

\* the loop is left: the footer is added, the document is saved and the
\* messages are printed
SaveDocument ==
    /\ pc = "scanning"
    /\ line_i >= Len(markdown_content)
    /\ doc' = doc \o << El("page_break", <<>>, <<>>), El("footer", <<now>>, <<>>) >>
    /\ files' = files \cup {ConvertedFile}
    /\ written' = Append(written, ConvertedFile)
    /\ console' = console \o <<"created", "report_generated">>
    /\ pc' = "saved"
    /\ UNCHANGED <<raw, cleaned, epic_batch_1, epic_batch_2, child_items_sample,
                   epics_data, prev_doc, data, markdown_content, script, now, line_i>>

NextConvert == ScanNextLine \/ SaveDocument

SpecConvert == InitConvert /\ [][NextConvert]_vars

\* the interpreter runs the script to its end
SpecConvertFair == SpecConvert /\ WF_vars(NextConvert)

\* the elements that line i of the file has put into the document
ElementsOf(i) == SelectSeq(doc, LAMBDA e : e.nums # <<>> /\ e.kind # "footer" /\ e.nums[1] = i)

\* the line that the scanner classifies: lines[i].strip()
LineAt(i) == Strip(markdown_content[i + 1])

\* the number of leading '#' characters of a line
RECURSIVE LeadingHashes(_)
LeadingHashes(s) ==
    IF s # <<>> /\ Head(s) = "#" THEN 1 + LeadingHashes(Tail(s)) ELSE 0

\* the line is a heading line: one to three '#' and then a space
IsHeadingLine(s) ==
    /\ LeadingHashes(s) \in 1..3
    /\ Len(s) > LeadingHashes(s)
    /\ s[LeadingHashes(s) + 1] = " "

\* C13: every scanned heading line ('# ', '## ' or '### ' at the start of the
\* line that the scanner classifies) has put exactly one heading into the
\* document, its level the number of leading '#' characters and its text the
\* text after the prefix; and every heading of the document comes from a
\* heading line with that many leading '#' characters.
C13_HeadingLevelIsHashCount ==
    script = "convert_to_word.py" =>
        /\ \A i \in 0..(line_i - 1) :
               IsHeadingLine(LineAt(i)) =>
                   ElementsOf(i) =
                       << El("heading", <<i, LeadingHashes(LineAt(i))>>,
                             <<Strip(Drop(LineAt(i), LeadingHashes(LineAt(i)) + 1))>>) >>
        /\ \A k \in 1..Len(doc) :
               doc[k].kind = "heading" =>
                   /\ IsHeadingLine(LineAt(doc[k].nums[1]))
                   /\ doc[k].nums[2] = LeadingHashes(LineAt(doc[k].nums[1]))

\* a file with a level-2 and a level-3 heading line has been scanned to its end
C13_Witness ==
    /\ script = "convert_to_word.py" /\ pc = "saved"
    /\ \E i, j \in 0..(line_i - 1) :
           /\ IsHeadingLine(LineAt(i)) /\ LeadingHashes(LineAt(i)) = 2
           /\ IsHeadingLine(LineAt(j)) /\ LeadingHashes(LineAt(j)) = 3

\* C14: the scanner is a single pass that ends.  Every step of the converter
\* either visits the line at index i < n and moves to index i + 1, or is the
\* one step that, at i = n, adds the footer and saves; and every run, of a
\* file of blank lines too, reaches the state where all n lines have been
\* visited, the footer is in the document and the file is saved.
C14_SinglePassTerminates ==
    /\ [][ \/ /\ line_i < Len(markdown_content)
              /\ line_i' = line_i + 1
              /\ pc' = "scanning"
           \/ /\ line_i = Len(markdown_content)
              /\ line_i' = line_i
              /\ pc' = "saved" ]_vars
    /\ <>( /\ pc = "saved"
           /\ line_i = Len(markdown_content)
           /\ doc # <<>> /\ doc[Len(doc)].kind = "footer"
           /\ written = <<ConvertedFile>> )

\* a file of two blank lines has been scanned and saved: the document holds
\* the page break and the footer only
C14_Witness ==
    /\ pc = "saved" /\ script = "convert_to_word.py"
    /\ Len(markdown_content) = 2
    /\ \A i \in 0..1 : LineAt(i) = <<>>
    /\ line_i = 2
    /\ Len(doc) = 2

\* the runs of a line of well-formed bold spans: the text outside the spans
\* plain, the text between an opening and a closing '**' bold (TRUE), the
\* markers left out.  SplitBold cuts at the markers; the parts alternate.
ExpectedRuns(line) ==
    [j \in 1..Len(SplitBold(line)) |-> [text |-> SplitBold(line)[j], bold |-> (j % 2 = 0)]]

\* the runs that an element shows, with their boldness
RunsOf(e) ==
    IF e.kind \in {"runs", "bullet_runs"}
    THEN [j \in 1..Len(e.texts) |-> [text |-> e.texts[j], bold |-> (j % 2 = 0)]]
    ELSE [j \in 1..Len(e.texts) |-> [text |-> e.texts[j], bold |-> FALSE]]

\* the line holds bold spans and they are well formed: every '**' that opens
\* a span has its closing '**', the spans are not empty and there is no other
\* '*' in the line
HasBoldSpans(line) ==
    /\ IsSubstring(<<"*", "*">>, line)
    /\ Len(SplitBold(line)) % 2 = 1
    /\ \A j \in 1..Len(SplitBold(line)) :
           /\ ~Contains(SplitBold(line)[j], "*")
           /\ j % 2 = 0 => SplitBold(line)[j] # <<>>

\* C15: every scanned line with bold spans (that is no heading line) has
\* put one element into the document whose runs are the parts of the line
\* between the markers, bold for the text inside a span and plain for the
\* text outside, with no '**' left in any run; a line that is one bold span
\* from end to end included.
C15_BoldSpansRenderedBold ==
    script = "convert_to_word.py" =>
        \A i \in 0..(line_i - 1) :
            (HasBoldSpans(LineAt(i)) /\ Head(LineAt(i)) # "#") =>
                /\ Len(ElementsOf(i)) = 1
                /\ \E skip \in {0, 2} :
                       /\ skip = 2 => StartsWith(LineAt(i), <<"-", " ">>)
                       /\ RunsOf(ElementsOf(i)[1]) = ExpectedRuns(Strip(Drop(LineAt(i), skip)))

\* C16: every scanned line beginning '- ' has put exactly one bullet into
\* the document: a 'List Bullet' paragraph with the text after the prefix
\* or, when that text holds '**', a 'List Bullet' paragraph with the parts
\* between the markers as runs, every second one bold.
C16_BulletLinesBecomeBullets ==
    script = "convert_to_word.py" =>
        \A i \in 0..(line_i - 1) :
            StartsWith(LineAt(i), <<"-", " ">>) =>
                LET bullet_text == Strip(Drop(LineAt(i), 2))
                IN  ElementsOf(i) =
                        IF IsSubstring(<<"*", "*">>, bullet_text)
                        THEN <<El("bullet_runs", <<i>>, SplitBold(bullet_text))>>
                        ELSE <<El("bullet", <<i>>, <<bullet_text>>)>>

-----------------------------------------------------------------------------
(* CloudInit_MCP_Report.py: the order of the sections *)

\* the place of an element in the fixed order of the report
SectionRank(kind) ==
    CASE kind = "title" -> 0
      [] kind = "generated" -> 1
      [] kind = "h1_executive_summary" -> 2
      [] kind = "summary" -> 3
      [] kind = "h1_active_committed" -> 4
      [] kind \in {"epic_header", "details", "key_updates", "point", "child_heading",
                   "child_table_header", "child_row", "table_space", "no_children"} -> 5
      [] kind = "h1_new" -> 6
      [] kind \in {"new_table_header", "new_row"} -> 7
      [] kind = "h1_other" -> 8
      [] kind = "other_bullet" -> 9
      [] kind = "page_break" -> 10
      [] kind = "h1_report_details" -> 11
      [] OTHER -> 12

\* how many elements of the document are of this kind
CountKind(kind) == Len(SelectSeq(doc, LAMBDA e : e.kind = kind))

\* C17: in a saved report the elements follow the fixed order: title,
\* generation line, Executive Summary, the active and committed section, the
\* new section, the section of the other states, Report Details.  The fixed
\* headings are there once; the heading of a bucket is there (once) exactly
\* when the bucket holds an epic; the epics of a bucket are rendered under
\* its heading, before the heading of any later bucket.
C17_SectionsInFixedOrder ==
    (script = "CloudInit_MCP_Report.py" /\ pc = "saved") =>
        /\ \A i, j \in 1..Len(doc) :
               i < j => SectionRank(doc[i].kind) <= SectionRank(doc[j].kind)
        /\ \A k \in {"title", "generated", "h1_executive_summary", "h1_report_details"} :
               CountKind(k) = 1
        /\ CountKind("h1_active_committed") =
               (IF active_committed_epics(epics_data) # <<>> THEN 1 ELSE 0)
        /\ CountKind("h1_new") = (IF new_epics(epics_data) # <<>> THEN 1 ELSE 0)
        /\ CountKind("h1_other") = (IF other_epics(epics_data) # <<>> THEN 1 ELSE 0)
        /\ CountKind("epic_header") = Len(active_committed_epics(epics_data))
        /\ CountKind("new_row") = Len(new_epics(epics_data))
        /\ CountKind("other_bullet") = Len(other_epics(epics_data))

\* a saved report with an active epic and an epic of another state, and no
\* new epic: two of the three bucket headings are there
C17_Witness ==
    /\ script = "CloudInit_MCP_Report.py" /\ pc = "saved"
    /\ CountKind("h1_active_committed") = 1
    /\ CountKind("h1_new") = 0
    /\ CountKind("h1_other") = 1
    /\ CountKind("other_bullet") = 1

-----------------------------------------------------------------------------
(* CloudInit_MCP_Report.py: the warning icon *)

\* the element shows the warning icon: a card header with the icon run, or
\* the salient point that starts with the icon
ShowsWarning(e) ==
    \/ e.kind = "epic_header" /\ e.nums[3] = 1
    \/ e.kind = "point" /\ e.texts[1] = <<WarnBranch, "1">>

\* the epic whose card holds element j of the document: the cards follow the
\* active and committed epics in order, each starting with its header
OwnerOf(j) ==
    active_committed_epics(epics_data)
        [Len(SelectSeq(Take(doc, j), LAMBDA e : e.kind = "epic_header"))]

\* C18: in a saved report, a card header or a salient point shows the
\* warning icon only if the lower-cased title or the lower-cased tags of the
\* epic of that card contain one of the blocker keywords.
C18_WarningOnlyForBlockers ==
    (script = "CloudInit_MCP_Report.py" /\ pc = "saved") =>
        \A j \in 1..Len(doc) :
            ShowsWarning(doc[j]) =>
                \E keyword \in blocker_keywords :
                    \/ IsSubstring(keyword, Lower(OwnerOf(j)["title"]))
                    \/ IsSubstring(keyword, Lower(Get(OwnerOf(j), "tags", <<>>)))

\* a saved report with two cards: one shows the icon on its header and in its
\* points, the other has points and shows no icon
C18_Witness ==
    /\ script = "CloudInit_MCP_Report.py" /\ pc = "saved"
    /\ \E j, k \in 1..Len(doc) :
           /\ doc[j].kind = "epic_header" /\ doc[j].nums[3] = 1
           /\ doc[k].kind = "point" /\ ShowsWarning(doc[k])
    /\ \E j, k \in 1..Len(doc) :
           /\ doc[j].kind = "epic_header" /\ doc[j].nums[3] = 0
           /\ doc[k].kind = "point" /\ ~ShowsWarning(doc[k])

-----------------------------------------------------------------------------
(* CloudInit_MCP_Report.py: last updated dates and salient points *)

\* C19: every epic that process_mcp_epic_data returns in state active or
\* committed has a 'last_updated' date and a 'salient_points' list that is
\* not empty, whatever the child-item sample is; and in the saved report
\* every card shows the date in its details line and the points under
\* 'Key Updates'.
C19_ActiveEpicsCarryDateAndPoints ==
    script = "CloudInit_MCP_Report.py" =>
        /\ pc \in {"processed", "saved"} =>
               \A i \in 1..Len(epics_data) :
                   InActiveCommitted(epics_data[i]) =>
                       /\ "last_updated" \in DOMAIN epics_data[i]
                       /\ "salient_points" \in DOMAIN epics_data[i]
                       /\ epics_data[i]["salient_points"] # <<>>
        /\ pc = "saved" =>
               /\ \A j \in 1..Len(doc) : doc[j].kind = "details" => doc[j].nums # <<>>
               /\ CountKind("key_updates") = Len(active_committed_epics(epics_data))

-----------------------------------------------------------------------------
(* validate_epics.py: the data written to epic_data_validated.json *)

\* longest list of query results
MaxQuery == 3

\* results of the query: the states of the list in the script, Active and
\* New, and states that the query returns as well
QueryEpics ==
    { [id |-> 24900549, state |-> Active],
      [id |-> 30027894, state |-> New],
      [id |-> 33047787, state |-> Committed],
      [id |-> 4976352, state |-> Removed] }

\* updated_data: the summary and the two lists
updated_data(query_epics, now_) ==
    LET active == SelectSeq(query_epics, LAMBDA epic : epic.state = Active)
        new == SelectSeq(query_epics, LAMBDA epic : epic.state = New)
    IN  [ generated_at |-> now_,
          summary |-> [ total_epics |-> Len(query_epics),
                        active_epics |-> Len(active),
                        new_epics |-> Len(new),
                        removed_epics |-> 1 ],
          active_epics |-> active,
          new_epics |-> new ]

InitValidate ==
    /\ pc = "start"
    /\ script = "validate_epics.py"
    /\ data \in SeqsUpTo(QueryEpics, MaxQuery)
    /\ files \in {{}, {EpicDataFile}}
    /\ doc = <<>> /\ prev_doc = <<>> /\ written = <<>> /\ console = <<>>
    /\ epic_batch_1 = <<>> /\ epic_batch_2 = <<>> /\ child_items_sample = <<>>
    /\ epics_data = <<>> /\ now = 0 /\ line_i = 0
    /\ raw = <<>> /\ cleaned = <<>> /\ markdown_content = <<>>

\* validate_and_update_epic_data(): doc is the data dumped to the file
ValidateAndUpdateEpicData ==
    /\ pc = "start"
    /\ doc' = updated_data(data, now)
    /\ files' = files \cup {ValidatedFile}
    /\ written' = Append(written, ValidatedFile)
    /\ console' = console \o validate_and_update_epic_data(files).console
    /\ pc' = "saved"
    /\ UNCHANGED <<raw, cleaned, epic_batch_1, epic_batch_2, child_items_sample,
                   epics_data, prev_doc, data, markdown_content, script, now, line_i>>

NextValidate == ValidateAndUpdateEpicData

SpecValidate == InitValidate /\ [][NextValidate]_vars

-----------------------------------------------------------------------------
(* The order of the script runs *)

\* the run that this step makes is of one of these scripts and saves a file
SavesDocument(names) == script' \in names /\ written' # <<>>

\* C21: in every sequence of script runs from a directory without generated
\* files, a run of create_focused_report.py saves a document only when
\* epic_data_validated.json is there, and that file comes into the directory
\* only by a run of validate_epics.py; a run of convert_to_word.py or of
\* create_professional_report.py saves a document only when
\* cloudinit_status_report.md is there, and that file comes into the
\* directory only by a run of comprehensive_report_generator.py.
C21_PipelineOrder ==
    [][ /\ SavesDocument({"create_focused_report.py"}) => ValidatedFile \in files
        /\ SavesDocument({"convert_to_word.py", "create_professional_report.py"})
               => MarkdownFile \in files
        /\ (ValidatedFile \in files' /\ ValidatedFile \notin files)
               => script' = "validate_epics.py"
        /\ (MarkdownFile \in files' /\ MarkdownFile \notin files)
               => script' = "comprehensive_report_generator.py" ]_vars

\* both pipelines have run: both input files were written, then the focused
\* report and the converted report were saved
C21_Witness ==
    /\ {ValidatedFile, MarkdownFile, FocusedFile} \subseteq files
    /\ script = "convert_to_word.py" /\ written = <<ConvertedFile>>

-----------------------------------------------------------------------------
(* convert_to_word.py: lines that leave nothing in the document *)

\* C22: every scanned line that is not blank has put exactly one element
\* into the document; a line of four or more '#' is no exception.
C22_NoLineDropped ==
    script = "convert_to_word.py" =>
        \A i \in 0..(line_i - 1) :
            LineAt(i) # <<>> => Len(ElementsOf(i)) = 1

-----------------------------------------------------------------------------
(* comprehensive_report_generator.py: inputs without an active epic *)

\* C23: generate_comprehensive_report returns a report for every input
\* whose records have all their fields, whatever the states of the epics
\* are: it does not fail when no epic is Active, or when there is no epic.
C23_ReportForEveryInput ==
    script = "comprehensive_report_generator.py" =>
        /\ pc # "generate_failed"
        /\ (pc \notin {"start", "fetched"}) => markdown_content # <<>>

-----------------------------------------------------------------------------
(* clean_assignee applied to its own result *)

\* C24: clean_assignee is idempotent: cleaning the cleaned string again
\* returns it unchanged, for every string, those that begin with '<'
\* included.
C24_CleanAssigneeIdempotent ==
    (script = "CloudInit_MCP_Report.py" /\ pc = "returned") =>
        clean_assignee(cleaned) = cleaned

-----------------------------------------------------------------------------
(* CloudInit_MCP_Report.py: the assignee of the epics returned *)

\* C25: the 'assigned_to' of every epic that process_mcp_epic_data returns
\* is a name that is not empty: "Unassigned" when the record gives no name.
C25_AssigneeNeverEmpty ==
    (script = "CloudInit_MCP_Report.py" /\ pc \in {"processed", "saved"}) =>
        \A i \in 1..Len(epics_data) :
            /\ epics_data[i]["assigned_to"] # <<>>
            /\ epics_data[i]["assigned_to"] # None

-----------------------------------------------------------------------------
(* The assignee normalizers of the other scripts *)

\* create_focused_report.py and validate_epics.py:
\* epic['assignee'].split('<')[0].strip() if epic['assignee'] else 'Unassigned'
focused_assignee(assignee) ==
    IF assignee = None \/ assignee = <<>>
    THEN Unassigned
    ELSE Strip(SplitFirst(assignee, "<"))

\* C26: for every raw assignee string, the normalization written inline in
\* create_focused_report.py and validate_epics.py and the one of the task,
\* bug and overview rows of generate_comprehensive_report give the name that
\* clean_assignee gives; strings with '<' and no '>' and strings that begin
\* with '<' included.
C26_NormalizersAgree ==
    (script = "CloudInit_MCP_Report.py" /\ pc = "returned") =>
        /\ focused_assignee(raw) = cleaned
        /\ ShortAssignee(raw) = cleaned

-----------------------------------------------------------------------------
(* final_live_mcp_report.py: process_mcp_epic_data without the added keys *)

\* the loop of process_mcp_epic_data of final_live_mcp_report.py
RECURSIVE FinalProcessItems(_, _)
FinalProcessItems(items, sample) ==
    IF items = <<>> THEN Ok(<<>>)
    ELSE
      LET fields == Get(Head(items), "fields", <<>>)
      IN  IF Get(fields, "System.State", <<>>) = None
          THEN Raise      \* None has no lower()
          ELSE IF IsRemoved(fields)
          THEN FinalProcessItems(Tail(items), sample)
          ELSE
            LET epic == NewEpic(fields)
                final == [epic EXCEPT !["children"] =
                              IF TakesChildren(epic, sample) THEN Take(sample, 2) ELSE @]
                rest == FinalProcessItems(Tail(items), sample)
            IN  IF rest.err THEN Raise ELSE Ok(<<final>> \o rest.val)

final_process_mcp_epic_data(epic_batch_1_, epic_batch_2_, child_items_sample_) ==
    FinalProcessItems(epic_batch_1_ \o epic_batch_2_, child_items_sample_)

\* the keys that both versions set
CanonicalKeys == {"id", "title", "state", "assigned_to", "tags", "children"}

\* the two lists have the same length and their epics agree on the
\* canonical keys, the first having no key besides them but 'last_updated'
\* and 'salient_points'
AgreeOnCanonical(enhanced, plain) ==
    /\ Len(enhanced) = Len(plain)
    /\ \A i \in 1..Len(plain) :
           /\ DOMAIN plain[i] = CanonicalKeys
           /\ (DOMAIN enhanced[i]) \ CanonicalKeys \subseteq {"last_updated", "salient_points"}
           /\ \A k \in CanonicalKeys : enhanced[i][k] = plain[i][k]

\* C27: on every pair of batches and every child sample the two versions of
\* process_mcp_epic_data do the same: one returns a list exactly when the
\* other does, and the lists have the same length and agree on 'id',
\* 'title', 'state', 'assigned_to', 'tags' and 'children'.
C27_VersionsEquivalent ==
    (script = "CloudInit_MCP_Report.py" /\ pc # "start") =>
        LET plain == final_process_mcp_epic_data(epic_batch_1, epic_batch_2,
                                                 child_items_sample)
        IN  /\ (pc = "process_failed") = plain.err
            /\ ~plain.err => AgreeOnCanonical(epics_data, plain.val)

====
